---- MODULE Spec2Model ----
(***************************************************************************)
(* Model of the polygon editing and door placement code of                 *)
(* learn-fabric-js-next:                                                   *)
(*   lib/drawing-tools/polygon/CustomPolygon.ts  (polygon, doors, splits)  *)
(*   tools/feature-tools/shape-tools/door.ts     (door feature tool)       *)
(*   lib/drawing-tools/draw-door.ts              (drawDoor drawing tool)   *)
(*                                                                         *)
(* Objects are identified by positive integers; 0 stands for an undefined  *)
(* reference.  A point is a pair <<x, y>>; <<>> stands for null.           *)
(* Coordinates are integers and every edge of a modelled polygon is        *)
(* parallel to an axis, so that the projection of getPointToLineDistance   *)
(* is computed exactly; distances are kept squared.                        *)
(***************************************************************************)
EXTENDS Integers, Sequences, FiniteSets, TLC

VARIABLES
  vertices,      \* CustomPolygon.vertices: sequence of vertex ids
  edges,         \* CustomPolygon.edges: sequence of edge ids
  doors,         \* CustomPolygon.doors: sequence of door objects
  objects,       \* CustomPolygon._objects: sequence of <<kind, id>>
  vertexObj,     \* every PolygonVertex ever created: [left, top, edges]
  edgeObj,       \* every PolygonEdge ever created:
                 \*   [source, target, prevEdge, nextEdge, x1, y1, x2, y2]
  offset,        \* translation of the polygon's transform matrix
  doorSeq,       \* number of fabric.Path doors created so far
  splits,        \* number of addVertexOnEdge calls so far
  moves,         \* number of vertex/polygon drag events so far
  handlers,      \* canvas events the door tool's handlers are registered on
  isDrawing,     \* door.ts closure: isDrawing
  startPoint,    \* door.ts closure: startPoint
  previewPath,   \* door.ts closure: previewPath (its points), <<>> for null
  previewPoint,  \* door.ts closure: previewPoint (its centre), <<>> for null
  onCanvas,      \* which preview artifacts are on the canvas
  activations,   \* number of door.action calls so far
  isDrawingDoor, \* draw-door.ts module variable
  ddStartPoint,  \* draw-door.ts module variable startPoint
  listeners,     \* canvas listeners of initializeDrawingTool closures:
                 \*   <<closure, event>>
  closures,      \* initializeDrawingTool calls: [tool, isDrawing,
                 \*   startPoint, isDragging] (context and isDragging)
  lineTool,      \* drawLine module variables: [startPoint, isDrawing,
                 \*   previewLine]
  rectTool,      \* drawRectangle module variables: [activeShape,
                 \*   startPoint, isDrawing]
  triTool,       \* drawTriangle module variables: [activeShape, startPoint]
  canvasObjects, \* the drawing tools' objects that are on the canvas
  shapeObj,      \* every object a drawing tool created: [kind, width,
                 \*   height]
  activeObject,  \* canvas.getActiveObject() among them, 0 for none
  lastOp,        \* the handler that ran last and the path it took
  call           \* last application of a geometry routine: [fn, args, ret]

polyVars == <<vertices, edges, doors, objects, vertexObj, edgeObj, offset,
              doorSeq, splits, moves>>
toolVars == <<handlers, isDrawing, startPoint, previewPath, previewPoint,
              onCanvas, activations>>
drawDoorVars == <<isDrawingDoor, ddStartPoint>>
drawingVars == <<listeners, closures, lineTool, rectTool, triTool,
                 canvasObjects, shapeObj, activeObject>>
libVars == <<drawDoorVars, drawingVars>>
vars == <<polyVars, toolVars, libVars, lastOp, call>>

\* ------------------------------------------------------------- bounds
MaxSplits == 3
MaxMoves == 1
MaxActivations == 1

\* ---------------------------------------------------- program constants
THRESHOLD == 10
RESNAP == 5
VertexRadius == 6

NoPoint == <<>>

\* call when no geometry routine has been applied to the current polygon.
NoCall == [fn |-> "none", args |-> <<>>, ret |-> <<>>]

\* ------------------------------------------------------- JS array helpers
\* Array.prototype.indexOf: 0-based index of the first occurrence, or -1.
IndexOf(s, x) ==
  IF \E i \in 1..Len(s) : s[i] = x
  THEN (CHOOSE i \in 1..Len(s) : s[i] = x /\ \A j \in 1..(i-1) : s[j] # x) - 1
  ELSE -1

\* Array.prototype.splice(start, deleteCount, ...items) with a 0-based start;
\* a negative start counts from the end.
Splice(s, start, deleteCount, items) ==
  LET n == Len(s)
      st == IF start < 0 THEN (IF n + start < 0 THEN 0 ELSE n + start)
            ELSE (IF start > n THEN n ELSE start)
      dc == IF deleteCount < 0 THEN 0
            ELSE (IF deleteCount > n - st THEN n - st ELSE deleteCount)
  IN SubSeq(s, 1, st) \o items \o SubSeq(s, st + dc + 1, n)

\* Array.prototype.map over a sequence.
MapReplace(s, old, new) == [i \in 1..Len(s) |-> IF s[i] = old THEN new ELSE s[i]]

Range(s) == {s[i] : i \in 1..Len(s)}

\* ------------------------------------------- PolygonVertex / PolygonEdge
\* An edge's line coordinates are the centres of its endpoint circles.
Centre(vo, v) == <<vo[v].left + VertexRadius, vo[v].top + VertexRadius>>

\* PolygonEdge.updatePosition: re-read the endpoints' positions.
UpdatePosition(vo, eo, e) ==
  [eo EXCEPT ![e].x1 = Centre(vo, eo[e].source)[1],
             ![e].y1 = Centre(vo, eo[e].source)[2],
             ![e].x2 = Centre(vo, eo[e].target)[1],
             ![e].y2 = Centre(vo, eo[e].target)[2]]

\* new PolygonEdge(source, target, ...): no cycle links yet.
NewPolygonEdge(vo, s, t) ==
  [source |-> s, target |-> t, prevEdge |-> 0, nextEdge |-> 0,
   x1 |-> Centre(vo, s)[1], y1 |-> Centre(vo, s)[2],
   x2 |-> Centre(vo, t)[1], y2 |-> Centre(vo, t)[2]]

\* new PolygonVertex({left: point.x - 6, top: point.y - 6, ...})
NewPolygonVertex(point) ==
  [left |-> point[1] - VertexRadius, top |-> point[2] - VertexRadius,
   edges |-> <<>>]

\* A polygon as the polygon drawing tool hands it to the constructor:
\* vertex i at pts[i], edge i from vertex i to vertex (i mod n) + 1, the
\* edges linked into one cycle, each vertex listing its two edges.
RingVertices(pts) ==
  LET n == Len(pts)
      prv(i) == IF i = 1 THEN n ELSE i - 1
  IN [i \in 1..n |->
        [left |-> pts[i][1] - VertexRadius, top |-> pts[i][2] - VertexRadius,
         edges |-> <<prv(i), i>>]]

RingEdges(pts) ==
  LET n == Len(pts)
      nxt(i) == (i % n) + 1
      prv(i) == IF i = 1 THEN n ELSE i - 1
  IN [i \in 1..n |->
        [source |-> i, target |-> nxt(i), prevEdge |-> prv(i),
         nextEdge |-> nxt(i),
         x1 |-> pts[i][1], y1 |-> pts[i][2],
         x2 |-> pts[nxt(i)][1], y2 |-> pts[nxt(i)][2]]]

\* The shapes a behaviour starts from: a single point, a flat two-vertex
\* polygon and a square.
InitShapes ==
  { << <<0, 0>> >>,
    << <<0, 0>>, <<20, 0>> >>,
    << <<0, 0>>, <<20, 0>>, <<20, 20>>, <<0, 20>> >> }

\* ---------------------------------------------------------- CustomPolygon
\* initializeCoordinateSystem: every edge listed by a vertex of the polygon
\* gets updatePosition (setCoords only refreshes fabric's caches).
InitializeCoordinateSystem(vs, vo, eo) ==
  LET listed == UNION {Range(vo[vs[i]].edges) : i \in 1..Len(vs)}
  IN [e \in DOMAIN eo |->
        IF e \in listed THEN UpdatePosition(vo, eo, e)[e] ELSE eo[e]]

\* The transform of a fabric object the polygon's code reads and writes.
FlatTransform ==
  [scaleX |-> 1, scaleY |-> 1, angle |-> 0, flipX |-> FALSE, flipY |-> FALSE]

\* updateDoors: every door whose path has at least 2 commands gets scale 1,
\* angle 0 and no flip.
UpdateDoorsKeepAngle(ds) ==
  [i \in 1..Len(ds) |->
     IF Len(ds[i].path) < 2 THEN ds[i]
     ELSE [ds[i] EXCEPT !.transform.scaleX = 1, !.transform.scaleY = 1,
                        !.transform.flipX = FALSE, !.transform.flipY = FALSE]]

UpdateDoors(ds) ==
  [i \in 1..Len(ds) |->
     IF Len(ds[i].path) < 2 THEN ds[i]
     ELSE [ds[i] EXCEPT !.transform = FlatTransform]]

\* updateObjects: _objects = [...vertices, ...edges, ...doors]
ChildObjectsDoorsFirst(vs, es, ds) ==
  [i \in 1..Len(ds) |-> <<"door", ds[i].id>>]
  \o [i \in 1..Len(vs) |-> <<"vertex", vs[i]>>]
  \o [i \in 1..Len(es) |-> <<"edge", es[i]>>]

ChildObjects(vs, es, ds) ==
  [i \in 1..Len(vs) |-> <<"vertex", vs[i]>>]
  \o [i \in 1..Len(es) |-> <<"edge", es[i]>>]
  \o [i \in 1..Len(ds) |-> <<"door", ds[i].id>>]

\* addVertexOnEdge step 5: the endpoints' edge lists, source first.
ReplaceEndpointEdgesSourceOnly(vo, edge, src, tgt, ne1, ne2) ==
  [vo EXCEPT ![src].edges = MapReplace(vo[src].edges, edge, ne1)]

ReplaceEndpointEdges(vo, edge, src, tgt, ne1, ne2) ==
  LET vo1 == [vo EXCEPT ![src].edges = MapReplace(vo[src].edges, edge, ne1)]
  IN [vo1 EXCEPT ![tgt].edges = MapReplace(vo1[tgt].edges, edge, ne2)]

\* addVertexOnEdge step 6: link the two new edges into the cycle.  The
\* assignments run in the code's order; edge.nextEdge is read after
\* edge.prevEdge.nextEdge was written.
RelinkForgetsPredecessor(eo, edge, ne1, ne2) ==
  LET a == [eo EXCEPT ![ne1].nextEdge = ne2, ![ne2].prevEdge = ne1]
      pe == a[edge].prevEdge
      b == IF pe # 0 THEN [a EXCEPT ![ne1].prevEdge = pe] ELSE a
      nx == b[edge].nextEdge
  IN IF nx # 0
     THEN [[b EXCEPT ![nx].prevEdge = ne2] EXCEPT ![ne2].nextEdge = nx]
     ELSE b

RelinkNoBackLink(eo, edge, ne1, ne2) ==
  LET a == [eo EXCEPT ![ne1].nextEdge = ne2, ![ne2].prevEdge = ne1]
      pe == a[edge].prevEdge
      b == IF pe # 0
           THEN [[a EXCEPT ![pe].nextEdge = ne1] EXCEPT ![ne1].prevEdge = pe]
           ELSE a
      nx == b[edge].nextEdge
  IN IF nx # 0
     THEN [b EXCEPT ![ne2].nextEdge = nx]
     ELSE b

Relink(eo, edge, ne1, ne2) ==
  LET a == [eo EXCEPT ![ne1].nextEdge = ne2, ![ne2].prevEdge = ne1]
      pe == a[edge].prevEdge
      b == IF pe # 0
           THEN [[a EXCEPT ![pe].nextEdge = ne1] EXCEPT ![ne1].prevEdge = pe]
           ELSE a
      nx == b[edge].nextEdge
  IN IF nx # 0
     THEN [[b EXCEPT ![nx].prevEdge = ne2] EXCEPT ![ne2].nextEdge = nx]
     ELSE b

\* addVertexOnEdge step 7, the vertex array.
InsertVertexAtEnd(vs, target, nv) == Append(vs, nv)

InsertVertex(vs, target, nv) == Splice(vs, IndexOf(vs, target), 0, <<nv>>)

\* addVertexOnEdge step 7, the edge array.
ReplaceEdgeKeepOld(es, edge, ne1, ne2) ==
  Splice(es, IndexOf(es, edge), 0, <<ne1, ne2>>)

ReplaceEdge(es, edge, ne1, ne2) ==
  Splice(es, IndexOf(es, edge), 1, <<ne1, ne2>>)

\* addVertexOnEdge(edge, point).
AddVertexOnEdge(edge, point) ==
  /\ LET nv == Len(vertexObj) + 1
         ne1 == Len(edgeObj) + 1
         ne2 == Len(edgeObj) + 2
         src == edgeObj[edge].source
         tgt == edgeObj[edge].target
         vo0 == Append(vertexObj, NewPolygonVertex(point))
         eo0 == Append(Append(edgeObj, NewPolygonEdge(vo0, src, nv)),
                       NewPolygonEdge(vo0, nv, tgt))
         vo1 == [vo0 EXCEPT ![nv].edges = <<ne1, ne2>>]
         vo2 == ReplaceEndpointEdges(vo1, edge, src, tgt, ne1, ne2)
         eo1 == Relink(eo0, edge, ne1, ne2)
         vs == InsertVertex(vertices, tgt, nv)
         es == ReplaceEdge(edges, edge, ne1, ne2)
     IN /\ vertexObj' = vo2
        /\ edgeObj' = InitializeCoordinateSystem(vs, vo2, eo1)
        /\ vertices' = vs
        /\ edges' = es
        /\ objects' = ChildObjects(vs, es, doors)
  /\ doors' = UpdateDoors(doors)
  /\ splits' = splits + 1
  /\ lastOp' = "addVertexOnEdge"
  /\ call' = NoCall
  /\ UNCHANGED <<offset, doorSeq, moves, toolVars, libVars>>

\* The points of an edge's line a double click can hit.
Between(a, b, c) == (a <= b /\ b <= c) \/ (c <= b /\ b <= a)

OnLine(eo, e, p) ==
  /\ Between(eo[e].x1, p[1], eo[e].x2)
  /\ Between(eo[e].y1, p[2], eo[e].y2)
  /\ (eo[e].x2 - eo[e].x1) * (p[2] - eo[e].y1)
       = (eo[e].y2 - eo[e].y1) * (p[1] - eo[e].x1)

SplitCoords == {0, 10, 20}
SplitPoints == SplitCoords \X SplitCoords

\* edge.on('mousedblclick'): split the edge under the pointer, at the
\* pointer's position in the polygon's frame.  Only an edge that is a child
\* of the group is hit, and the pointer lies on its line.
EdgeDblClick(max) ==
  /\ splits < max
  /\ \E i \in 1..Len(edges) : \E p \in SplitPoints :
       /\ OnLine(edgeObj, edges[i], p)
       /\ AddVertexOnEdge(edges[i], p)

\* The polygon is rectilinear: every edge of the polygon is parallel to an
\* axis (or has length 0), which keeps the projections below exact.
AxisParallel(eo, e) == eo[e].x1 = eo[e].x2 \/ eo[e].y1 = eo[e].y2

\* vertex.on('moving'): fabric has moved the vertex; its listed edges follow.
MoveVertexEdges(vo, eo, v) ==
  LET listed == Range(vo[v].edges)
  IN [e \in DOMAIN eo |->
        IF e \in listed THEN UpdatePosition(vo, eo, e)[e] ELSE eo[e]]

VertexMoving(max) ==
  /\ moves < max
  /\ \E i \in 1..Len(vertices) : \E p \in SplitPoints :
       LET v == vertices[i]
           vo == [vertexObj EXCEPT ![v].left = p[1] - VertexRadius,
                                   ![v].top = p[2] - VertexRadius]
           eo == MoveVertexEdges(vo, edgeObj, v)
       IN /\ p # Centre(vertexObj, v)
          /\ \A e \in DOMAIN eo : AxisParallel(eo, e)
          /\ vertexObj' = vo
          /\ edgeObj' = eo
  /\ doors' = UpdateDoors(doors)
  /\ moves' = moves + 1
  /\ lastOp' = "vertex:moving"
  /\ call' = NoCall
  /\ UNCHANGED <<vertices, edges, objects, offset, doorSeq, splits,
                 toolVars, libVars>>

\* this.on('modified' | 'scaling' | 'rotating' | 'moving'): the group's
\* transform has changed (here: its translation).
Offsets == {<<0, 0>>, <<4, 0>>}

PolygonTransformed(max) ==
  /\ moves < max
  /\ \E o \in Offsets :
       /\ o # offset
       /\ offset' = o
  /\ edgeObj' = InitializeCoordinateSystem(vertices, vertexObj, edgeObj)
  /\ doors' = UpdateDoors(doors)
  /\ moves' = moves + 1
  /\ lastOp' = "polygon:transform"
  /\ call' = NoCall
  /\ UNCHANGED <<vertices, edges, objects, vertexObj, doorSeq, splits,
                 toolVars, libVars>>

\* ------------------------------------------------------------- door.ts
\* toLocalPoint / toGlobalPoint: the polygon's transform and its inverse.
ToLocalPoint(off, p) == <<p[1] - off[1], p[2] - off[2]>>
ToGlobalPoint(off, p) == <<p[1] + off[1], p[2] + off[2]>>

\* The value of getPointToLineDistance when lineLengthSq is 0: 0/0 is NaN,
\* Math.min and Math.max keep it, and so do the point and the distance.
NaNResult == [nan |-> TRUE, distance2 |-> 0, point |-> NoPoint, t |-> <<0, 0>>]

\* getPointToLineDistance.  t is the fraction t[1]/t[2]; distance2 is the
\* square of the distance the code returns.
GetPointToLineDistance(point, lineStart, lineEnd) ==
  LET vx == lineEnd[1] - lineStart[1]
      vy == lineEnd[2] - lineStart[2]
      px == point[1] - lineStart[1]
      py == point[2] - lineStart[2]
      lineLengthSq == vx * vx + vy * vy
      dot == px * vx + py * vy
      t == IF dot <= 0 THEN <<0, 1>>
           ELSE IF dot >= lineLengthSq THEN <<1, 1>>
           ELSE <<dot, lineLengthSq>>
      proj == <<lineStart[1] + (t[1] * vx) \div t[2],
                lineStart[2] + (t[1] * vy) \div t[2]>>
      dx == point[1] - proj[1]
      dy == point[2] - proj[2]
  IN IF lineLengthSq = 0 THEN NaNResult
     ELSE [nan |-> FALSE, distance2 |-> dx * dx + dy * dy, point |-> proj,
           t |-> t]

\* result.distance < c && result.t >= 0 && result.t <= 1; every comparison
\* with NaN is false.
Qualifies(res, c) ==
  /\ ~res.nan
  /\ res.distance2 < c * c
  /\ res.t[1] >= 0
  /\ res.t[1] <= res.t[2]

P1(eo, e) == <<eo[e].x1, eo[e].y1>>
P2(eo, e) == <<eo[e].x2, eo[e].y2>>

NoSnap == [edge |-> 0, point |-> NoPoint]

\* The body of the forEach of findClosestEdgePoint for one edge; best.edge = 0
\* stands for minDistance = Infinity.
ClosestStepLast(eo, e, localPointer, best) ==
  LET res == GetPointToLineDistance(localPointer, P1(eo, e), P2(eo, e))
  IN IF Qualifies(res, THRESHOLD)
     THEN [edge |-> e, point |-> res.point, distance2 |-> res.distance2]
     ELSE best

ClosestStepInclusive(eo, e, localPointer, best) ==
  LET res == GetPointToLineDistance(localPointer, P1(eo, e), P2(eo, e))
  IN IF ~res.nan /\ res.distance2 <= THRESHOLD * THRESHOLD
        /\ (best.edge = 0 \/ res.distance2 < best.distance2)
     THEN [edge |-> e, point |-> res.point, distance2 |-> res.distance2]
     ELSE best

ClosestStep(eo, e, localPointer, best) ==
  LET res == GetPointToLineDistance(localPointer, P1(eo, e), P2(eo, e))
  IN IF Qualifies(res, THRESHOLD)
        /\ (best.edge = 0 \/ res.distance2 < best.distance2)
     THEN [edge |-> e, point |-> res.point, distance2 |-> res.distance2]
     ELSE best

RECURSIVE ClosestLoop(_, _, _, _, _)
ClosestLoop(es, eo, localPointer, i, best) ==
  IF i > Len(es) THEN best
  ELSE ClosestLoop(es, eo, localPointer, i + 1,
                   ClosestStep(eo, es[i], localPointer, best))

\* findClosestEdgePoint(globalPointer): {point, edge} or null (NoSnap).
FindClosestEdgePoint(es, eo, off, globalPointer) ==
  LET best == ClosestLoop(es, eo, ToLocalPoint(off, globalPointer), 1,
                          [edge |-> 0, point |-> NoPoint, distance2 |-> 0])
  IN [edge |-> best.edge, point |-> best.point]

\* The body of the forEach of findPathBetweenPoints for the edge at 0-based
\* index i; st = [startEdgeIndex, endEdgeIndex, localStart, localEnd].
ResnapStepNearest(eo, e, i, st) ==
  LET startResult == GetPointToLineDistance(st.localStart, P1(eo, e), P2(eo, e))
      endResult == GetPointToLineDistance(st.localEnd, P1(eo, e), P2(eo, e))
      s1 == IF Qualifies(startResult, RESNAP) /\ st.startEdgeIndex = -1
            THEN [st EXCEPT !.startEdgeIndex = i,
                            !.localStart = startResult.point]
            ELSE st
  IN IF Qualifies(endResult, RESNAP) /\ st.endEdgeIndex = -1
     THEN [s1 EXCEPT !.endEdgeIndex = i, !.localEnd = endResult.point]
     ELSE s1

ResnapStepStartOnly(eo, e, i, st) ==
  LET startResult == GetPointToLineDistance(st.localStart, P1(eo, e), P2(eo, e))
  IN IF Qualifies(startResult, RESNAP)
     THEN [st EXCEPT !.startEdgeIndex = i, !.localStart = startResult.point]
     ELSE st

ResnapStep(eo, e, i, st) ==
  LET startResult == GetPointToLineDistance(st.localStart, P1(eo, e), P2(eo, e))
      endResult == GetPointToLineDistance(st.localEnd, P1(eo, e), P2(eo, e))
      s1 == IF Qualifies(startResult, RESNAP)
            THEN [st EXCEPT !.startEdgeIndex = i,
                            !.localStart = startResult.point]
            ELSE st
  IN IF Qualifies(endResult, RESNAP)
     THEN [s1 EXCEPT !.endEdgeIndex = i, !.localEnd = endResult.point]
     ELSE s1

RECURSIVE ResnapLoop(_, _, _, _)
ResnapLoop(es, eo, i, st) ==
  IF i >= Len(es) THEN st
  ELSE ResnapLoop(es, eo, i + 1, ResnapStep(eo, es[i + 1], i, st))

Resnap(es, eo, localStart, localEnd) ==
  ResnapLoop(es, eo, 0,
             [startEdgeIndex |-> -1, endEdgeIndex |-> -1,
              localStart |-> localStart, localEnd |-> localEnd])

\* One turn of the while loop of findPathBetweenPoints.
NextIndexBackward(currentIndex, n) == (currentIndex + n - 1) % n

NextIndex(currentIndex, n) == (currentIndex + 1) % n

RECURSIVE WalkLoop(_, _, _, _, _)
WalkLoop(es, eo, currentIndex, endEdgeIndex, path) ==
  IF currentIndex = endEdgeIndex THEN path
  ELSE LET nxt == NextIndex(currentIndex, Len(es))
       IN WalkLoop(es, eo, nxt, endEdgeIndex,
                   Append(path, P1(eo, es[nxt + 1])))

\* findPathBetweenPoints(localStart, localEnd): a sequence of points.
FindPathBetweenPoints(es, eo, localStart, localEnd) ==
  LET st == Resnap(es, eo, localStart, localEnd)
  IN IF st.startEdgeIndex = -1 \/ st.endEdgeIndex = -1 THEN <<>>
     ELSE IF st.startEdgeIndex = st.endEdgeIndex
     THEN <<st.localStart, st.localEnd>>
     ELSE Append(WalkLoop(es, eo, st.startEdgeIndex, st.endEdgeIndex,
                          <<st.localStart>>),
                 st.localEnd)

\* The path string "M x y L x y ..." as fabric.Path parses it.
PathOf(points) ==
  [i \in 1..Len(points) |->
     <<(IF i = 1 THEN "M" ELSE "L"), points[i][1], points[i][2]>>]

PreviewRadius == 5

\* createPreviewPoint: the circle's left and top.
CreatePreviewPoint(off, point) ==
  <<ToGlobalPoint(off, point)[1] - PreviewRadius,
    ToGlobalPoint(off, point)[2] - PreviewRadius>>

\* new fabric.Path(pathString, {...}): a new object, its transform the
\* default one.
NewDoorPath(id, points) ==
  [id |-> id, path |-> PathOf(points), transform |-> FlatTransform]

\* CustomPolygon.addDoor(door): the door array after the push.
AddDoorFront(ds, door) == <<door>> \o ds

AddDoor(ds, door) == Append(ds, door)

\* CustomPolygon.addDoor(door), the whole method: the pushes, then
\* updateObjects with its initializeCoordinateSystem and updateDoors.
PolygonAddDoor(door) ==
  /\ doors' = UpdateDoors(AddDoor(doors, door))
  /\ doorSeq' = doorSeq + 1
  /\ objects' = ChildObjects(vertices, edges, doors')
  /\ edgeObj' = InitializeCoordinateSystem(vertices, vertexObj, edgeObj)

\* CustomPolygon.removeDoor(door): indexOf finds the door by identity.
DoorIds(ds) == [i \in 1..Len(ds) |-> ds[i].id]

DoorIndexLast(ds, id) == Len(ds) - 1

DoorIndex(ds, id) == IndexOf(DoorIds(ds), id)

\* removeDoor, the whole method: nothing when the door is not in doors;
\* otherwise the two splices, then updateObjects with its
\* initializeCoordinateSystem and updateDoors.
RemoveDoor(id) ==
  \E doorIndex \in {DoorIndex(doors, id)} :
    IF doorIndex > -1
    THEN /\ doors' = UpdateDoors(Splice(doors, doorIndex, 1, <<>>))
         /\ objects' = ChildObjects(vertices, edges, doors')
         /\ edgeObj' = InitializeCoordinateSystem(vertices, vertexObj, edgeObj)
    ELSE UNCHANGED <<doors, objects, edgeObj>>

\* deleteObject.action(object) for a path that has a group: the door paths
\* made so far, those already removed included (removeDoor leaves their
\* group set).
MaxDoors == 2

DeleteObjectAction ==
  /\ \E id \in 1..doorSeq : RemoveDoor(id)
  /\ lastOp' = "deleteObject"
  /\ call' = NoCall
  /\ UNCHANGED <<vertices, edges, vertexObj, offset, doorSeq, splits, moves,
                 toolVars, libVars>>

\* The door tool's second click as the polygon sees it: addDoor with a new
\* path routed between two boundary points.
DoorRoutes == { << <<10, 0>>, <<20, 3>> >> }

AddDoorCall ==
  /\ doorSeq < MaxDoors
  /\ \E r \in DoorRoutes :
       \E localPathPoints \in
             {FindPathBetweenPoints(edges, edgeObj, r[1], r[2])} :
         /\ Len(localPathPoints) >= 2
         /\ PolygonAddDoor(NewDoorPath(doorSeq + 1, localPathPoints))
  /\ lastOp' = "addDoor"
  /\ call' = NoCall
  /\ UNCHANGED <<vertices, edges, vertexObj, offset, splits, moves,
                 toolVars, libVars>>

\* A door is selectable, evented and has controls inside the interactive
\* group: the user scales, rotates or flips it.
DoorTransforms ==
  { FlatTransform,
    [FlatTransform EXCEPT !.scaleX = 2],
    [FlatTransform EXCEPT !.angle = 90, !.flipY = TRUE] }

DoorModified ==
  /\ \E i \in 1..Len(doors) : \E t \in DoorTransforms :
       /\ t # doors[i].transform
       /\ doors' = [doors EXCEPT ![i].transform = t]
  /\ lastOp' = "door:modified"
  /\ call' = NoCall
  /\ UNCHANGED <<vertices, edges, objects, vertexObj, edgeObj, offset,
                 doorSeq, splits, moves, toolVars, libVars>>

\* The pointer positions of the mouse events, in canvas coordinates.
Pointers ==
  { <<10, -4>>, <<10, 20>>, <<18, 0>>, <<3, 3>>, <<10, 10>>, <<-11, -11>> }

\* door.action(object) for a CustomPolygon on a canvas: a new closure,
\* its handlers registered.  One closure is followed at a time.
DoorActionKeepsGesture(max) ==
  /\ activations < max
  /\ handlers = {}
  /\ previewPath' = <<>>
  /\ previewPoint' = NoPoint
  /\ handlers' = {"mouse:move", "mouse:down"}
  /\ activations' = activations + 1
  /\ lastOp' = "door:action"
  /\ UNCHANGED <<polyVars, isDrawing, startPoint, onCanvas, libVars, call>>

DoorActionUpTo(max) ==
  /\ activations < max
  /\ handlers = {}
  /\ isDrawing' = FALSE
  /\ startPoint' = NoPoint
  /\ previewPath' = <<>>
  /\ previewPoint' = NoPoint
  /\ handlers' = {"mouse:move", "mouse:down"}
  /\ activations' = activations + 1
  /\ lastOp' = "door:action"
  /\ UNCHANGED <<polyVars, onCanvas, libVars, call>>

DoorAction == DoorActionUpTo(MaxActivations)

\* door.action(object) for an object that is not a CustomPolygon or has no
\* canvas: console.error and return, before any closure state exists.
DoorActionRejectedRegisters ==
  /\ handlers' = {"mouse:move", "mouse:down"}
  /\ lastOp' = "door:rejected"
  /\ UNCHANGED <<polyVars, isDrawing, startPoint, previewPath, previewPoint,
                 onCanvas, activations, libVars, call>>

DoorActionRejected ==
  /\ lastOp' = "door:rejected"
  /\ UNCHANGED <<polyVars, toolVars, libVars, call>>

\* cleanup(), as the host calls it.
Cleanup ==
  /\ activations > 0
  /\ onCanvas' = {}
  /\ handlers' = {}
  /\ lastOp' = "door:cleanup"
  /\ UNCHANGED <<polyVars, isDrawing, startPoint, previewPath, previewPoint,
                 activations, libVars, call>>

\* handleMouseMove, with updatePreviewLine inlined.
\* updatePreviewLine(localStart, localEnd): the old preview path leaves the
\* canvas; a path of at least 2 points becomes the new one.
UpdatePreviewLine(localStart, localEnd) ==
  \E localPathPoints \in
        {FindPathBetweenPoints(edges, edgeObj, localStart, localEnd)} :
    IF Len(localPathPoints) < 2
    THEN /\ previewPath' = <<>>
         /\ onCanvas' = {"point"}
    ELSE /\ previewPath' =
              PathOf([i \in 1..Len(localPathPoints) |->
                        ToGlobalPoint(offset, localPathPoints[i])])
         /\ onCanvas' = {"point", "path"}

\* handleMouseMove when findClosestEdgePoint has given null: both preview
\* artifacts have left the canvas, the closure's variables still hold them.
NoSnapMoveKeepsPreview ==
  /\ lastOp' = "move:nosnap"
  /\ UNCHANGED <<polyVars, toolVars, libVars, call>>

NoSnapMove ==
  /\ onCanvas' = {}
  /\ lastOp' = "move:nosnap"
  /\ UNCHANGED <<polyVars, handlers, isDrawing, startPoint, previewPath,
                 previewPoint, activations, libVars, call>>

\* handleMouseMove when findClosestEdgePoint has given a point.
SnapMove(point) ==
  /\ previewPoint' = CreatePreviewPoint(offset, point)
  /\ IF isDrawing /\ startPoint # NoPoint
     THEN UpdatePreviewLine(startPoint, point)
     ELSE /\ previewPath' = previewPath
          /\ onCanvas' = {"point"}
  /\ lastOp' = "move:snap"
  /\ UNCHANGED <<polyVars, handlers, isDrawing, startPoint, activations,
                 libVars, call>>

HandleMouseMove(pointer) ==
  /\ "mouse:move" \in handlers
  /\ \E result \in {FindClosestEdgePoint(edges, edgeObj, offset, pointer)} :
       IF result.edge # 0 THEN SnapMove(result.point) ELSE NoSnapMove

\* handleMouseDown when findPathBetweenPoints has given a path: the door is
\* added and the tool cleans up after itself.
CommitDoorKeepHandlers(localPathPoints) ==
  /\ PolygonAddDoor(NewDoorPath(doorSeq + 1, localPathPoints))
  /\ onCanvas' = {}
  /\ handlers' = handlers
  /\ isDrawing' = TRUE
  /\ startPoint' = startPoint
  /\ lastOp' = "down:commit"
  /\ UNCHANGED <<vertices, edges, vertexObj, offset, splits, moves,
                 previewPath, previewPoint, activations, libVars, call>>

CommitDoor(localPathPoints) ==
  /\ PolygonAddDoor(NewDoorPath(doorSeq + 1, localPathPoints))
  /\ onCanvas' = {}
  /\ handlers' = {}
  /\ isDrawing' = FALSE
  /\ startPoint' = NoPoint
  /\ lastOp' = "down:commit"
  /\ UNCHANGED <<vertices, edges, vertexObj, offset, splits, moves,
                 previewPath, previewPoint, activations, libVars, call>>

\* handleMouseDown when findPathBetweenPoints has given fewer than 2 points.
RouteFailedKeepStart ==
  /\ isDrawing' = FALSE
  /\ startPoint' = startPoint
  /\ lastOp' = "down:routefail"
  /\ UNCHANGED <<polyVars, handlers, previewPath, previewPoint, onCanvas,
                 activations, libVars, call>>

RouteFailed ==
  /\ isDrawing' = FALSE
  /\ startPoint' = NoPoint
  /\ lastOp' = "down:routefail"
  /\ UNCHANGED <<polyVars, handlers, previewPath, previewPoint, onCanvas,
                 activations, libVars, call>>

\* handleMouseDown when isDrawing is false: the first point.
FirstPointNoRecord(point) ==
  /\ isDrawing' = TRUE
  /\ startPoint' = startPoint
  /\ lastOp' = "down:first"
  /\ UNCHANGED <<polyVars, handlers, previewPath, previewPoint, onCanvas,
                 activations, libVars, call>>

FirstPoint(point) ==
  /\ isDrawing' = TRUE
  /\ startPoint' = point
  /\ lastOp' = "down:first"
  /\ UNCHANGED <<polyVars, handlers, previewPath, previewPoint, onCanvas,
                 activations, libVars, call>>

\* handleMouseDown when findClosestEdgePoint has given null.
NoSnapDownResets ==
  /\ isDrawing' = FALSE
  /\ startPoint' = NoPoint
  /\ lastOp' = "down:nosnap"
  /\ UNCHANGED <<polyVars, handlers, previewPath, previewPoint, onCanvas,
                 activations, libVars, call>>

NoSnapDown ==
  /\ lastOp' = "down:nosnap"
  /\ UNCHANGED <<polyVars, toolVars, libVars, call>>

\* handleMouseDown when isDrawing is true: the second point.
SecondPoint(point) ==
  \E localPathPoints \in
        {FindPathBetweenPoints(edges, edgeObj, startPoint, point)} :
    IF Len(localPathPoints) < 2 THEN RouteFailed
    ELSE CommitDoor(localPathPoints)

HandleMouseDown(pointer) ==
  /\ "mouse:down" \in handlers
  /\ \E result \in {FindClosestEdgePoint(edges, edgeObj, offset, pointer)} :
       IF result.edge = 0 THEN NoSnapDown
       ELSE IF ~isDrawing THEN FirstPoint(result.point)
       ELSE SecondPoint(result.point)

CanvasMouseMove == \E p \in Pointers : HandleMouseMove(p)

CanvasMouseDown == \E p \in Pointers : HandleMouseDown(p)

\* ----------------------------------------------------------- draw-door.ts
\* drawDoor.handleMouseDown.  CustomPolygon defines no findClosestPointOnEdge,
\* so with a CustomPolygon as the active object the call at line 23 raises a
\* TypeError before any assignment; otherwise the handler returns at once.
DrawDoorMouseDown ==
  /\ \E activeIsPolygon \in BOOLEAN :
       lastOp' = IF activeIsPolygon THEN "drawDoor:TypeError"
                 ELSE "drawDoor:return"
  /\ UNCHANGED <<polyVars, toolVars, libVars, call>>

\* drawDoor.cleanUp: the module's flag and start point are reset.
DrawDoorCleanUp ==
  /\ isDrawingDoor' = FALSE
  /\ ddStartPoint' = NoPoint
  /\ lastOp' = "drawDoor:cleanUp"
  /\ UNCHANGED <<polyVars, toolVars, drawingVars, call>>

\* --------------------------------------- utils.ts: initializeDrawingTool
\* The drawing tools run through initializeDrawingTool.
DrawingTools == {"line", "rectangle", "triangle"}

ToolEvents == {"mouse:down", "mouse:move", "mouse:up"}

\* The pointer positions of the drawing gestures.
ToolPointers == { <<0, 0>>, <<5, 5>> }

MaxInits == 2
MaxGestures == 2

Abs(x) == IF x < 0 THEN -x ELSE x

\* The shapes a mouse-down of a tool has put on the canvas so far.
Gestures ==
  Len(SelectSeq(shapeObj,
                LAMBDA o : o.kind \in {"previewLine", "rect", "triangle"}))

NewShape(kind) == [kind |-> kind, width |-> 0, height |-> 0]

Resized(so, id, start, pointer) ==
  [so EXCEPT ![id].width = Abs(start[1] - pointer[1]),
             ![id].height = Abs(start[2] - pointer[2])]

\* drawLine.handleMouseDown / handleMouseMove / handleMouseUp / cleanUp.
\* startCircle and endCircle are never assigned and stay null.
LineMouseDown(pointer) ==
  /\ lineTool' = [startPoint |-> pointer, isDrawing |-> TRUE,
                  previewLine |-> Len(shapeObj) + 1]
  /\ shapeObj' = Append(shapeObj, NewShape("previewLine"))
  /\ canvasObjects' = canvasObjects \cup {Len(shapeObj) + 1}
  /\ UNCHANGED <<rectTool, triTool, activeObject>>

LineMouseMove(pointer) ==
  IF ~lineTool.isDrawing \/ lineTool.startPoint = NoPoint
     \/ lineTool.previewLine = 0
  THEN UNCHANGED <<lineTool, rectTool, triTool, shapeObj, canvasObjects,
                   activeObject>>
  ELSE /\ shapeObj' = Resized(shapeObj, lineTool.previewLine,
                              lineTool.startPoint, pointer)
       /\ UNCHANGED <<lineTool, rectTool, triTool, canvasObjects,
                      activeObject>>

LineMouseUp(pointer) ==
  IF ~lineTool.isDrawing \/ lineTool.startPoint = NoPoint
  THEN UNCHANGED <<lineTool, rectTool, triTool, shapeObj, canvasObjects,
                   activeObject>>
  ELSE /\ shapeObj' = shapeObj \o <<NewShape("circle"), NewShape("circle"),
                                    NewShape("connectionLine")>>
       /\ canvasObjects' =
            (canvasObjects \ {lineTool.previewLine})
              \cup {Len(shapeObj) + 1, Len(shapeObj) + 2, Len(shapeObj) + 3}
       /\ activeObject' = Len(shapeObj) + 3
       /\ lineTool' = [startPoint |-> NoPoint, isDrawing |-> FALSE,
                       previewLine |-> 0]
       /\ UNCHANGED <<rectTool, triTool>>

LineCleanUp ==
  /\ canvasObjects' = canvasObjects \ {lineTool.previewLine}
  /\ lineTool' = [startPoint |-> NoPoint, isDrawing |-> FALSE,
                  previewLine |-> 0]
  /\ UNCHANGED <<rectTool, triTool, shapeObj, activeObject>>

\* drawRectangle.handleMouseDown / handleMouseMove / handleMouseUp / cleanUp.
RectMouseDown(pointer) ==
  IF rectTool.isDrawing
  THEN UNCHANGED <<lineTool, rectTool, triTool, shapeObj, canvasObjects,
                   activeObject>>
  ELSE /\ rectTool' = [activeShape |-> Len(shapeObj) + 1,
                       startPoint |-> pointer, isDrawing |-> TRUE]
       /\ shapeObj' = Append(shapeObj, NewShape("rect"))
       /\ canvasObjects' = canvasObjects \cup {Len(shapeObj) + 1}
       /\ UNCHANGED <<lineTool, triTool, activeObject>>

RectMouseMove(pointer) ==
  IF rectTool.activeShape = 0 \/ rectTool.startPoint = NoPoint
     \/ ~rectTool.isDrawing
  THEN UNCHANGED <<lineTool, rectTool, triTool, shapeObj, canvasObjects,
                   activeObject>>
  ELSE /\ shapeObj' = Resized(shapeObj, rectTool.activeShape,
                              rectTool.startPoint, pointer)
       /\ UNCHANGED <<lineTool, rectTool, triTool, canvasObjects,
                      activeObject>>

RectMouseUp(pointer) ==
  IF ~rectTool.isDrawing
  THEN UNCHANGED <<lineTool, rectTool, triTool, shapeObj, canvasObjects,
                   activeObject>>
  ELSE /\ IF rectTool.activeShape = 0
          THEN UNCHANGED <<canvasObjects, activeObject>>
          ELSE IF /\ shapeObj[rectTool.activeShape].width > 0
                  /\ shapeObj[rectTool.activeShape].height > 0
               THEN /\ activeObject' = rectTool.activeShape
                    /\ UNCHANGED canvasObjects
               ELSE /\ canvasObjects' = canvasObjects \ {rectTool.activeShape}
                    /\ UNCHANGED activeObject
       /\ rectTool' = [activeShape |-> 0, startPoint |-> NoPoint,
                       isDrawing |-> FALSE]
       /\ UNCHANGED <<lineTool, triTool, shapeObj>>

RectCleanUp ==
  /\ rectTool' = [activeShape |-> 0, startPoint |-> NoPoint,
                  isDrawing |-> FALSE]
  /\ UNCHANGED <<lineTool, triTool, shapeObj, canvasObjects, activeObject>>

\* drawTriangle.handleMouseDown / handleMouseMove / handleMouseUp / cleanUp.
TriMouseDown(pointer) ==
  /\ triTool' = [activeShape |-> Len(shapeObj) + 1, startPoint |-> pointer]
  /\ shapeObj' = Append(shapeObj, NewShape("triangle"))
  /\ canvasObjects' = canvasObjects \cup {Len(shapeObj) + 1}
  /\ UNCHANGED <<lineTool, rectTool, activeObject>>

TriMouseMove(pointer) ==
  IF triTool.activeShape = 0 \/ triTool.startPoint = NoPoint
  THEN UNCHANGED <<lineTool, rectTool, triTool, shapeObj, canvasObjects,
                   activeObject>>
  ELSE /\ shapeObj' = Resized(shapeObj, triTool.activeShape,
                              triTool.startPoint, pointer)
       /\ UNCHANGED <<lineTool, rectTool, triTool, canvasObjects,
                      activeObject>>

TriMouseUp ==
  IF triTool.activeShape = 0
  THEN UNCHANGED <<lineTool, rectTool, triTool, shapeObj, canvasObjects,
                   activeObject>>
  ELSE /\ activeObject' = triTool.activeShape
       /\ triTool' = [activeShape |-> 0, startPoint |-> NoPoint]
       /\ UNCHANGED <<lineTool, rectTool, shapeObj, canvasObjects>>

TriCleanUp ==
  /\ triTool' = [activeShape |-> 0, startPoint |-> NoPoint]
  /\ UNCHANGED <<lineTool, rectTool, shapeObj, canvasObjects, activeObject>>

\* tool.handleMouseDown?.(canvas, pointer) and its siblings.
ToolHandleMouseDown(tool, pointer) ==
  CASE tool = "line" -> LineMouseDown(pointer)
    [] tool = "rectangle" -> RectMouseDown(pointer)
    [] tool = "triangle" -> TriMouseDown(pointer)

ToolHandleMouseMove(tool, pointer) ==
  CASE tool = "line" -> LineMouseMove(pointer)
    [] tool = "rectangle" -> RectMouseMove(pointer)
    [] tool = "triangle" -> TriMouseMove(pointer)

ToolHandleMouseUp(tool, pointer) ==
  CASE tool = "line" -> LineMouseUp(pointer)
    [] tool = "rectangle" -> RectMouseUp(pointer)
    [] tool = "triangle" -> TriMouseUp

ToolCleanUp(tool) ==
  CASE tool = "line" -> LineCleanUp
    [] tool = "rectangle" -> RectCleanUp
    [] tool = "triangle" -> TriCleanUp

\* canvas.off(event) without a handler removes every listener of the event:
\* those of every initializeDrawingTool closure and the door tool's.
OffAll(ls, c) == {}

\* initializeDrawingTool(canvas, tool, addObject, setCurrentTool): closure c
\* with its context and isDragging, its three listeners registered after
\* the three canvas.off calls.
InitializeDrawingTool ==
  /\ Len(closures) < MaxInits
  /\ \E tool \in DrawingTools :
       closures' = Append(closures,
                          [tool |-> tool, isDrawing |-> FALSE,
                           startPoint |-> NoPoint, isDragging |-> FALSE])
  /\ listeners' = OffAll(listeners, 0)
                    \cup {<<Len(closures) + 1, e>> : e \in ToolEvents}
  /\ handlers' = {}
  /\ lastOp' = "initializeDrawingTool"
  /\ UNCHANGED <<polyVars, isDrawing, startPoint, previewPath, previewPoint,
                 onCanvas, activations, drawDoorVars, lineTool, rectTool,
                 triTool, canvasObjects, shapeObj, activeObject, call>>

\* The function initializeDrawingTool returned for closure c: tool.cleanUp,
\* then the three canvas.off calls.  The host can call it at any time.
ReturnedCleanup(c) ==
  /\ ToolCleanUp(closures[c].tool)
  /\ listeners' = OffAll(listeners, c)
  /\ handlers' = {}
  /\ lastOp' = "tool:cleanup"
  /\ UNCHANGED <<polyVars, isDrawing, startPoint, previewPath, previewPoint,
                 onCanvas, activations, drawDoorVars, closures, call>>

HostCleanup == \E c \in 1..Len(closures) : ReturnedCleanup(c)

\* The mouse:down listener of closure c; target is what canvas.findTarget
\* gives.  lastOp tells whether the tool's handler was invoked.
ListenerMouseDown(c, pointer, target) ==
  /\ <<c, "mouse:down">> \in listeners
  /\ IF target
     THEN /\ closures' = [closures EXCEPT ![c].isDragging = TRUE]
          /\ lastOp' = "tool:down:drag"
          /\ UNCHANGED <<lineTool, rectTool, triTool, shapeObj,
                         canvasObjects, activeObject>>
     ELSE /\ Gestures < MaxGestures
          /\ closures' = [closures EXCEPT ![c].isDrawing = TRUE,
                                          ![c].startPoint = pointer]
          /\ lastOp' = "tool:handleMouseDown"
          /\ ToolHandleMouseDown(closures[c].tool, pointer)
  /\ UNCHANGED <<polyVars, toolVars, drawDoorVars, listeners, call>>

\* The mouse:move listener of closure c.
ListenerMouseMoveWhileDragging(c, pointer) ==
  /\ <<c, "mouse:move">> \in listeners
  /\ IF ~closures[c].isDrawing
     THEN /\ lastOp' = "tool:move:ignored"
          /\ UNCHANGED <<lineTool, rectTool, triTool, shapeObj,
                         canvasObjects, activeObject>>
     ELSE /\ lastOp' = "tool:handleMouseMove"
          /\ ToolHandleMouseMove(closures[c].tool, pointer)
  /\ UNCHANGED <<polyVars, toolVars, drawDoorVars, listeners, closures,
                 call>>

ListenerMouseMove(c, pointer) ==
  /\ <<c, "mouse:move">> \in listeners
  /\ IF ~closures[c].isDrawing \/ closures[c].isDragging
     THEN /\ lastOp' = "tool:move:ignored"
          /\ UNCHANGED <<lineTool, rectTool, triTool, shapeObj,
                         canvasObjects, activeObject>>
     ELSE /\ lastOp' = "tool:handleMouseMove"
          /\ ToolHandleMouseMove(closures[c].tool, pointer)
  /\ UNCHANGED <<polyVars, toolVars, drawDoorVars, listeners, closures,
                 call>>

\* The mouse:up listener of closure c.  No tool sets context.currentShape,
\* so addObject is not called; the step "tool:handleMouseUp" ends with
\* setCurrentTool(null), the host's callback.
ListenerMouseUp(c, pointer) ==
  /\ <<c, "mouse:up">> \in listeners
  /\ IF closures[c].isDragging
     THEN /\ closures' = [closures EXCEPT ![c].isDragging = FALSE]
          /\ lastOp' = "tool:up:dragEnd"
          /\ UNCHANGED <<lineTool, rectTool, triTool, shapeObj,
                         canvasObjects, activeObject>>
     ELSE IF ~closures[c].isDrawing
     THEN /\ lastOp' = "tool:up:ignored"
          /\ UNCHANGED <<closures, lineTool, rectTool, triTool, shapeObj,
                         canvasObjects, activeObject>>
     ELSE /\ closures' = [closures EXCEPT ![c].isDrawing = FALSE]
          /\ lastOp' = "tool:handleMouseUp"
          /\ ToolHandleMouseUp(closures[c].tool, pointer)
  /\ UNCHANGED <<polyVars, toolVars, drawDoorVars, listeners, call>>

CanvasToolMouseDown ==
  \E c \in 1..Len(closures) : \E p \in ToolPointers : \E target \in BOOLEAN :
    ListenerMouseDown(c, p, target)

CanvasToolMouseMove ==
  \E c \in 1..Len(closures) : \E p \in ToolPointers : ListenerMouseMove(c, p)

CanvasToolMouseUp ==
  \E c \in 1..Len(closures) : \E p \in ToolPointers : ListenerMouseUp(c, p)

\* -------------------------------------------- the geometry routines alone
\* Arguments of the routines: canvas positions on, near and far from the
\* boundary, and points of the polygon's frame on and off its lines.
GeomCoords == {-11, -10, -4, 3, 10, 18, 20}
GeomPointers == GeomCoords \X GeomCoords
PathInputs ==
  { <<10, 0>>, <<18, 0>>, <<3, 0>>, <<20, 3>>, <<10, 20>>, <<0, 10>>,
    <<10, 4>>, <<10, 10>> }

\* Arguments of getPointToLineDistance: segments parallel to an axis, in
\* both directions, and segments whose two ends coincide.
SegmentEnds == { <<0, 0>>, <<20, 0>>, <<0, 20>> }
SegmentPoints == { <<10, 3>>, <<-4, -4>>, <<0, 0>>, <<20, 10>> }

CallGetPointToLineDistance ==
  /\ call = NoCall
  /\ \E point \in SegmentPoints :
       \E lineStart \in SegmentEnds : \E lineEnd \in SegmentEnds :
         /\ lineStart[1] = lineEnd[1] \/ lineStart[2] = lineEnd[2]
         /\ call' = [fn |-> "getPointToLineDistance",
                     args |-> <<point, lineStart, lineEnd>>,
                     ret |-> <<GetPointToLineDistance(point, lineStart,
                                                      lineEnd)>>]
  /\ lastOp' = "call"
  /\ UNCHANGED <<polyVars, toolVars, libVars>>

CallFindClosestEdgePoint ==
  /\ call = NoCall
  /\ \E p \in GeomPointers :
       call' = [fn |-> "findClosestEdgePoint", args |-> <<p>>,
                ret |-> <<FindClosestEdgePoint(edges, edgeObj, offset, p)>>]
  /\ lastOp' = "call"
  /\ UNCHANGED <<polyVars, toolVars, libVars>>

CallFindPathBetweenPoints ==
  /\ call = NoCall
  /\ \E a \in PathInputs : \E b \in PathInputs :
       call' = [fn |-> "findPathBetweenPoints", args |-> <<a, b>>,
                ret |-> FindPathBetweenPoints(edges, edgeObj, a, b)]
  /\ lastOp' = "call"
  /\ UNCHANGED <<polyVars, toolVars, libVars>>

\* ------------------------------------------------------- specifications
Init ==
  /\ \E pts \in InitShapes :
       /\ vertexObj = RingVertices(pts)
       /\ edgeObj = RingEdges(pts)
       /\ vertices = [i \in 1..Len(pts) |-> i]
       /\ edges = [i \in 1..Len(pts) |-> i]
  /\ doors = <<>>
  /\ objects = ChildObjects(vertices, edges, doors)
  /\ offset = <<0, 0>>
  /\ doorSeq = 0
  /\ splits = 0
  /\ moves = 0
  /\ handlers = {}
  /\ isDrawing = FALSE
  /\ startPoint = NoPoint
  /\ previewPath = <<>>
  /\ previewPoint = NoPoint
  /\ onCanvas = {}
  /\ activations = 0
  /\ isDrawingDoor = FALSE
  /\ ddStartPoint = NoPoint
  /\ listeners = {}
  /\ closures = <<>>
  /\ lineTool = [startPoint |-> NoPoint, isDrawing |-> FALSE,
                 previewLine |-> 0]
  /\ rectTool = [activeShape |-> 0, startPoint |-> NoPoint,
                 isDrawing |-> FALSE]
  /\ triTool = [activeShape |-> 0, startPoint |-> NoPoint]
  /\ canvasObjects = {}
  /\ shapeObj = <<>>
  /\ activeObject = 0
  /\ lastOp = "init"
  /\ call = NoCall

MaxGeomSplits == 1

\* The door tool on a polygon that is being edited.
ToolVertexMoving == VertexMoving(MaxMoves)
ToolPolygonTransformed == PolygonTransformed(MaxMoves)

Next ==
  \/ DoorAction
  \/ DoorActionRejected
  \/ Cleanup
  \/ CanvasMouseMove
  \/ CanvasMouseDown
  \/ DrawDoorMouseDown
  \/ DrawDoorCleanUp
  \/ ToolVertexMoving
  \/ ToolPolygonTransformed

Spec == Init /\ [][Next]_vars

\* Polygon editing alone.
TopoDblClick == EdgeDblClick(MaxSplits)

NextTopology ==
  \/ TopoDblClick

SpecTopology == Init /\ [][NextTopology]_vars

\* The geometry routines applied to the polygons editing produces.
GeomDblClick == EdgeDblClick(MaxGeomSplits)
GeomPolygonTransformed == PolygonTransformed(MaxMoves)

NextGeometry ==
  \/ CallGetPointToLineDistance
  \/ CallFindClosestEdgePoint
  \/ CallFindPathBetweenPoints
  \/ GeomDblClick
  \/ GeomPolygonTransformed

SpecGeometry == Init /\ [][NextGeometry]_vars

\* Routing on the polygons any sequence of splits produces.
RouteDblClick == EdgeDblClick(MaxSplits)

NextRouting ==
  \/ RouteDblClick
  \/ CallFindPathBetweenPoints

SpecRouting == Init /\ [][NextRouting]_vars

\* The door tool activated again after a cleanup, and drawDoor.
MaxReactivations == 2

DoorActionAgain == DoorActionUpTo(MaxReactivations)

NextActivations ==
  \/ DoorActionAgain
  \/ Cleanup
  \/ CanvasMouseMove
  \/ CanvasMouseDown
  \/ DrawDoorMouseDown
  \/ DrawDoorCleanUp

SpecActivations == Init /\ [][NextActivations]_vars

\* The polygon's doors while the polygon is edited.
DoorsDblClick == EdgeDblClick(MaxGeomSplits)
DoorsVertexMoving == VertexMoving(MaxMoves)
DoorsPolygonTransformed == PolygonTransformed(MaxMoves)

NextDoors ==
  \/ AddDoorCall
  \/ DeleteObjectAction
  \/ DoorModified
  \/ DoorsDblClick
  \/ DoorsVertexMoving
  \/ DoorsPolygonTransformed

SpecDoors == Init /\ [][NextDoors]_vars

\* The drawing tools and the door tool on one canvas.  Each registered
\* handler's run is a step of its own.
NextTools ==
  \/ InitializeDrawingTool
  \/ HostCleanup
  \/ CanvasToolMouseDown
  \/ CanvasToolMouseMove
  \/ CanvasToolMouseUp
  \/ DoorAction
  \/ Cleanup

SpecTools == Init /\ [][NextTools]_vars

\* ======================================================================
\* Properties.  Distances in the statements are measured independently of
\* getPointToLineDistance: for a segment parallel to an axis (or of length
\* 0) the distance of a point is taken coordinate by coordinate.
\* ======================================================================
IntervalDist(x, a, b) ==
  LET lo == IF a <= b THEN a ELSE b
      hi == IF a <= b THEN b ELSE a
  IN IF x < lo THEN lo - x ELSE IF x > hi THEN x - hi ELSE 0

SegDist2(p, a, b) ==
  IntervalDist(p[1], a[1], b[1]) * IntervalDist(p[1], a[1], b[1])
  + IntervalDist(p[2], a[2], b[2]) * IntervalDist(p[2], a[2], b[2])

EdgeDist2(p, e) == SegDist2(p, P1(edgeObj, e), P2(edgeObj, e))

\* The model keeps every polygon rectilinear, which the exact arithmetic of
\* GetPointToLineDistance and SegDist2 rest on.
Rectilinear == \A i \in 1..Len(edges) : AxisParallel(edgeObj, edges[i])

RECURSIVE FollowNext(_, _)
FollowNext(e, k) ==
  IF k = 0 \/ e = 0 THEN e ELSE FollowNext(edgeObj[e].nextEdge, k - 1)

CycleClosed ==
  \A i \in 1..Len(edges) :
    /\ FollowNext(edges[i], Len(edges)) = edges[i]
    /\ \A k \in 1..(Len(edges) - 1) : FollowNext(edges[i], k) # edges[i]

\* C1: every addVertexOnEdge call adds exactly one vertex and exactly one
\* edge, and after any number of calls the nextEdge links starting at any
\* edge of the edge sequence come back to it after exactly edges.length
\* steps and not earlier.
C1_SplitAddsOneAndKeepsCycle ==
  /\ [](CycleClosed)
  /\ [][splits' = splits + 1 =>
          /\ Len(vertices') = Len(vertices) + 1
          /\ Len(edges') = Len(edges) + 1]_vars

C1_Witness == splits >= 2 /\ Len(edges) >= 6 /\ CycleClosed

\* C2: after any sequence of addVertexOnEdge calls the prev/next links of
\* the edges of the sequence are mutually inverse and stay inside the
\* sequence, and the edges form one cycle through every vertex exactly once;
\* polygons of one and two edges included.
C2_LinksConsistent ==
  /\ \A i \in 1..Len(edges) :
       LET e == edges[i] IN
         /\ edgeObj[e].nextEdge \in Range(edges)
         /\ edgeObj[e].prevEdge \in Range(edges)
         /\ edgeObj[edgeObj[e].nextEdge].prevEdge = e
         /\ edgeObj[edgeObj[e].prevEdge].nextEdge = e
  /\ {FollowNext(edges[1], k) : k \in 0..(Len(edges) - 1)} = Range(edges)
  /\ Cardinality(Range(edges)) = Len(edges)
  /\ Cardinality(Range(vertices)) = Len(vertices)
  /\ {edgeObj[edges[i]].source : i \in 1..Len(edges)} = Range(vertices)
  /\ {edgeObj[edges[i]].target : i \in 1..Len(edges)} = Range(vertices)

\* a one-edge polygon has been split, and one of its halves again
C2_Witness ==
  /\ splits = 2
  /\ Len(edges) = 3
  /\ edgeObj[1].nextEdge # 1

\* C3: addVertexOnEdge puts the two new edges, source half first, where the
\* old edge was, and the new vertex at the index the old edge's target had;
\* the two sequences have the same length and every edge leads from a vertex
\* to its cyclic successor in the vertex sequence.
SplitAt(i) ==
  LET e == edges[i]
      nv == Len(vertexObj) + 1
      ne1 == Len(edgeObj) + 1
      ne2 == Len(edgeObj) + 2
      ti == CHOOSE j \in 1..Len(vertices) : vertices[j] = edgeObj[e].target
  IN /\ edges' = SubSeq(edges, 1, i - 1) \o <<ne1, ne2>>
                   \o SubSeq(edges, i + 1, Len(edges))
     /\ edgeObj'[ne1].source = edgeObj[e].source
     /\ edgeObj'[ne1].target = nv
     /\ edgeObj'[ne2].source = nv
     /\ edgeObj'[ne2].target = edgeObj[e].target
     /\ vertices' = SubSeq(vertices, 1, ti - 1) \o <<nv>>
                      \o SubSeq(vertices, ti, Len(vertices))

CyclicallyAdjacent(e) ==
  \E j \in 1..Len(vertices) :
    /\ vertices[j] = edgeObj[e].source
    /\ vertices[(j % Len(vertices)) + 1] = edgeObj[e].target

C3_SplitInPlace ==
  /\ [](Len(vertices) = Len(edges))
  /\ [](\A i \in 1..Len(edges) : CyclicallyAdjacent(edges[i]))
  /\ [][splits' = splits + 1 => \E i \in 1..Len(edges) : SplitAt(i)]_vars

\* the closing edge of the square has been split: the new vertex is first
C3_Witness ==
  /\ splits = 1
  /\ Len(vertices) = 5
  /\ vertices[1] = 5
  /\ edges = <<1, 2, 3, 5, 6>>

\* ------------------------------------------------- findPathBetweenPoints
IsPathCall == call.fn = "findPathBetweenPoints"

\* C4: when the two endpoints re-snap to different edges s and e, the path is
\* the re-snapped start, the starting vertices of the edges s+1, ..., e
\* (indices modulo n, always forward, (e - s) mod n of them, at most n - 1)
\* and the re-snapped end; on the square the midpoints of edge 0 and edge 2
\* give 4 points.
C4_ForwardWalk ==
  IsPathCall =>
    LET st == Resnap(edges, edgeObj, call.args[1], call.args[2])
        s == st.startEdgeIndex
        e == st.endEdgeIndex
        n == Len(edges)
        k == (e - s + n) % n
    IN /\ (s # -1 /\ e # -1 /\ s # e) =>
            /\ k >= 1
            /\ k <= n - 1
            /\ Len(call.ret) = k + 2
            /\ call.ret[1] = st.localStart
            /\ call.ret[k + 2] = st.localEnd
            /\ \A j \in 1..k :
                 call.ret[j + 1] = P1(edgeObj, edges[((s + j) % n) + 1])
       /\ (/\ splits = 0
           /\ n = 4
           /\ call.args = << <<10, 0>>, <<10, 20>> >>) =>
            call.ret = << <<10, 0>>, <<20, 0>>, <<20, 20>>, <<10, 20>> >>

\* from edge 3 to edge 2 of the square the walk goes forward through three
\* vertices although edge 2 is the neighbour behind
C4_Witness ==
  /\ IsPathCall
  /\ splits = 0
  /\ Len(edges) = 4
  /\ call.args = << <<0, 10>>, <<10, 20>> >>
  /\ call.ret = << <<0, 10>>, <<0, 0>>, <<20, 0>>, <<20, 20>>, <<10, 20>> >>

\* the edges on which findClosestEdgePoint puts some pointer at point p
SnapEdges(p) ==
  {r.edge : r \in {rr \in {FindClosestEdgePoint(edges, edgeObj, offset, q) :
                             q \in GeomPointers} : rr.point = p}}

\* C5: for two points that findClosestEdgePoint snapped onto the same edge,
\* findPathBetweenPoints returns exactly these two points.
C5_SameEdgeDirect ==
  (IsPathCall /\ SnapEdges(call.args[1]) \cap SnapEdges(call.args[2]) # {})
    => call.ret = <<call.args[1], call.args[2]>>

\* the 0-based indices of the qualifying edges nearest to p
NearestQualifying(p) ==
  {i \in 0..(Len(edges) - 1) :
     /\ ~(P1(edgeObj, edges[i + 1]) = P2(edgeObj, edges[i + 1]))
     /\ EdgeDist2(p, edges[i + 1]) < RESNAP * RESNAP
     /\ \A j \in 0..(Len(edges) - 1) :
          EdgeDist2(p, edges[i + 1]) <= EdgeDist2(p, edges[j + 1])}

\* C6: each endpoint is re-snapped to the nearest of its qualifying edges:
\* the index chosen is that of a qualifying edge of smallest distance to the
\* original endpoint, and the endpoint becomes its projection on that edge.
C6_ResnapNearest ==
  IsPathCall =>
    LET st == Resnap(edges, edgeObj, call.args[1], call.args[2])
        projOn(p, i) ==
          GetPointToLineDistance(p, P1(edgeObj, edges[i + 1]),
                                 P2(edgeObj, edges[i + 1])).point
    IN /\ NearestQualifying(call.args[1]) # {} =>
            /\ st.startEdgeIndex \in NearestQualifying(call.args[1])
            /\ st.localStart = projOn(call.args[1], st.startEdgeIndex)
       /\ NearestQualifying(call.args[2]) # {} =>
            /\ st.endEdgeIndex \in NearestQualifying(call.args[2])
            /\ st.localEnd = projOn(call.args[2], st.endEdgeIndex)
       /\ Len(call.ret) >= 2 =>
            /\ call.ret[1] = st.localStart
            /\ call.ret[Len(call.ret)] = st.localEnd

\* ------------------------------------------------- findClosestEdgePoint
IsSnapCall == call.fn = "findClosestEdgePoint"

SnapArg == ToLocalPoint(offset, call.args[1])

SnapRet == call.ret[1]

PositiveLength(e) == P1(edgeObj, e) # P2(edgeObj, e)

\* the projection of p on an axis-parallel edge, coordinate by coordinate
Clamp(x, a, b) ==
  LET lo == IF a <= b THEN a ELSE b
      hi == IF a <= b THEN b ELSE a
  IN IF x < lo THEN lo ELSE IF x > hi THEN hi ELSE x

NearestPointOn(p, e) ==
  <<Clamp(p[1], edgeObj[e].x1, edgeObj[e].x2),
    Clamp(p[2], edgeObj[e].y1, edgeObj[e].y2)>>

SnapOf(p) == FindClosestEdgePoint(edges, edgeObj, offset, p)

ValidSnap(p) == SnapOf(p).edge # 0

\* doors' is doors, or doors with one more door
AtMostOneDoorAdded ==
  \/ doors' = doors
  \/ /\ Len(doors') = Len(doors) + 1
     /\ SubSeq(doors', 1, Len(doors)) = doors

\* C8: the gesture has the two states Idle (isDrawing false) and
\* AwaitingSecondPoint (isDrawing true).  A mouse-down with a valid snap in
\* Idle sets the flag, records the snapped point as the start point and adds
\* no door; in AwaitingSecondPoint it clears the flag and the start point and
\* adds at most one door.  Only a mouse-down or a new activation changes the
\* state, and in every reachable state the flag is true exactly when a start
\* point is recorded, in the door tool and in drawDoor.
C8_GestureMachine ==
  /\ [](isDrawing <=> startPoint # NoPoint)
  /\ [](isDrawingDoor <=> ddStartPoint # NoPoint)
  /\ [][\A p \in Pointers :
          (HandleMouseDown(p) /\ ValidSnap(p)) =>
            IF ~isDrawing
            THEN /\ isDrawing'
                 /\ startPoint' = SnapOf(p).point
                 /\ doors' = doors
            ELSE /\ ~isDrawing'
                 /\ startPoint' = NoPoint
                 /\ AtMostOneDoorAdded]_vars
  /\ [][(isDrawing' # isDrawing \/ startPoint' # startPoint) =>
          \/ \E p \in Pointers : HandleMouseDown(p) /\ ValidSnap(p)
          \/ DoorAction]_vars

\* a second click has committed a door along the boundary
C8_Witness ==
  /\ lastOp = "down:commit"
  /\ Len(doors) = 1
  /\ Len(doors[1].path) >= 3
  /\ ~isDrawing
  /\ startPoint = NoPoint

\* the point p of the polygon's frame has no edge at a distance below 5
NoEdgeNear(p) ==
  \A i \in 1..Len(edges) : EdgeDist2(p, edges[i]) >= RESNAP * RESNAP

\* C9: findPathBetweenPoints gives no point when an endpoint has no edge
\* within distance 5, and a second click whose routing gives fewer than 2
\* points leaves the gesture in Idle with the start point cleared, the doors
\* and the child objects as they were, the handler returning normally.
C9_RouteFailureResets ==
  /\ [](isDrawing =>
          \A p \in Pointers :
            (ValidSnap(p) /\ (NoEdgeNear(startPoint) \/ NoEdgeNear(SnapOf(p).point)))
              => FindPathBetweenPoints(edges, edgeObj, startPoint,
                                       SnapOf(p).point) = <<>>)
  /\ [][\A p \in Pointers :
          (/\ HandleMouseDown(p)
           /\ ValidSnap(p)
           /\ isDrawing
           /\ Len(FindPathBetweenPoints(edges, edgeObj, startPoint,
                                        SnapOf(p).point)) < 2) =>
            /\ ~isDrawing'
            /\ startPoint' = NoPoint
            /\ doors' = doors
            /\ objects' = objects
            /\ handlers' = handlers
            /\ lastOp' = "down:routefail"]_vars

\* the start point was left behind by a moved vertex and the second click
\* has been abandoned
C9_Witness ==
  /\ lastOp = "down:routefail"
  /\ moves = 1
  /\ ~isDrawing
  /\ startPoint = NoPoint
  /\ doors = <<>>
  /\ "mouse:down" \in handlers

\* every edge is farther than THRESHOLD from the pointer p
NoEdgeWithinThreshold(p) ==
  \A i \in 1..Len(edges) :
    EdgeDist2(ToLocalPoint(offset, p), edges[i]) > THRESHOLD * THRESHOLD

\* C10 as stated: a mouse-down with no edge within the threshold leaves the
\* flag, the start point and the doors unchanged, and a mouse-move with no
\* edge within the threshold leaves the preview as it is.
C10_NoSnapIgnored ==
  [][\A p \in Pointers :
       NoEdgeWithinThreshold(p) =>
         /\ HandleMouseDown(p) => UNCHANGED <<isDrawing, startPoint, doors>>
         /\ HandleMouseMove(p) =>
              UNCHANGED <<previewPath, previewPoint, onCanvas>>]_vars

\* C10 as amended: a mouse-down with no edge within the threshold leaves the
\* flag, the start point and the doors unchanged; a mouse-move with no edge
\* within the threshold creates no preview and leaves the gesture alone, but
\* takes the preview point and the preview path off the canvas.
C10_NoSnapRemovesPreview ==
  [][\A p \in Pointers :
       NoEdgeWithinThreshold(p) =>
         /\ HandleMouseDown(p) =>
              UNCHANGED <<isDrawing, startPoint, doors, objects, previewPath,
                          previewPoint, onCanvas, handlers>>
         /\ HandleMouseMove(p) =>
              /\ UNCHANGED <<isDrawing, startPoint, doors, objects,
                             previewPath, previewPoint, handlers>>
              /\ onCanvas' = {}]_vars

\* the pointer has left the boundary during a gesture: the preview that was
\* shown is off the canvas
C10_Witness ==
  /\ lastOp = "move:nosnap"
  /\ isDrawing
  /\ previewPoint # NoPoint
  /\ previewPath # <<>>
  /\ onCanvas = {}
  /\ \E p \in Pointers : NoEdgeWithinThreshold(p)

\* ------------------------------------------------------------- cleanup
\* C11: the door tool's cleanup, in any gesture state, leaves the gesture in
\* Idle (flag false, start point cleared), no preview path and no preview
\* point on the canvas and no mouse:move or mouse:down handler of the tool
\* registered; drawDoor.cleanUp leaves its flag false and its start point
\* cleared.
C11_CleanupForcesIdle ==
  /\ [][Cleanup =>
          /\ ~isDrawing'
          /\ startPoint' = NoPoint
          /\ onCanvas' = {}
          /\ handlers' = {}]_vars
  /\ [][DrawDoorCleanUp =>
          /\ ~isDrawingDoor'
          /\ ddStartPoint' = NoPoint]_vars

\* ------------------------------------------------------ door management
DoorIdSet(ds) == Range(DoorIds(ds))

\* the doors of ds other than the door id, as they are listed in ds
OtherDoors(ds, id) == SelectSeq(ds, LAMBDA d : d.id # id)

\* what removeDoor and addDoor leave of a door: the object and its path
Identity(ds) == [i \in 1..Len(ds) |-> <<ds[i].id, ds[i].path>>]

\* C12: removeDoor(d) for a door of the polygon leaves d in neither the
\* doors nor the child objects and keeps every other door, in order; for a
\* d that is not a door of the polygon it leaves the doors, the child
\* objects, the vertices and the edges as they were.
C12_RemoveDoor ==
  [][\A id \in 1..doorSeq :
       (lastOp' = "deleteObject" /\ RemoveDoor(id)) =>
         IF id \in DoorIdSet(doors)
         THEN /\ id \notin DoorIdSet(doors')
              /\ <<"door", id>> \notin Range(objects')
              /\ Identity(doors') = Identity(OtherDoors(doors, id))
              /\ \A j \in DoorIdSet(doors') : <<"door", j>> \in Range(objects')
              /\ UNCHANGED <<vertices, edges>>
         ELSE UNCHANGED <<doors, objects, vertices, edges>>]_vars

\* the first of two doors has been removed and the second is still there
C12_Witness ==
  /\ lastOp = "deleteObject"
  /\ doorSeq = 2
  /\ DoorIds(doors) = <<2>>
  /\ <<"door", 2>> \in Range(objects)
  /\ <<"door", 1>> \notin Range(objects)

\* C13: addDoor(d) leaves d as the last door, d among the child objects, the
\* earlier doors before it in their order, and d with scale 1 and angle 0.
C13_AddDoorAppends ==
  [][AddDoorCall =>
       /\ Len(doors') = Len(doors) + 1
       /\ doors'[Len(doors')].id = doorSeq + 1
       /\ doorSeq + 1 \notin DoorIdSet(doors)
       /\ Identity(SubSeq(doors', 1, Len(doors))) = Identity(doors)
       /\ <<"door", doorSeq + 1>> \in Range(objects')
       /\ \A i \in 1..Len(doors) : <<"door", doors[i].id>> \in Range(objects')
       /\ doors'[Len(doors')].transform.scaleX = 1
       /\ doors'[Len(doors')].transform.scaleY = 1
       /\ doors'[Len(doors')].transform.angle = 0]_vars

\* a second door has been added behind the first
C13_Witness ==
  /\ lastOp = "addDoor"
  /\ DoorIds(doors) = <<1, 2>>
  /\ objects[Len(objects)] = <<"door", 2>>
  /\ doors[2].transform = FlatTransform

\* C14: after a transform event of the polygon, a vertex move and a split,
\* every door of the polygon has scale 1, angle 0 and no flip, whichever
\* vertex was moved and whichever edge was split.
C14_DoorsResynchronized ==
  [][(DoorsPolygonTransformed \/ DoorsVertexMoving \/ DoorsDblClick) =>
       \A i \in 1..Len(doors') : doors'[i].transform = FlatTransform]_vars

\* a vertex of a polygon that was split before has been moved, two doors
\* being attached
C14_Witness ==
  /\ lastOp = "vertex:moving"
  /\ splits = 1
  /\ Len(doors) = 2
  /\ \A i \in 1..Len(doors) : doors[i].transform = FlatTransform

\* C15: when the second click snaps to the recorded start point,
\* findPathBetweenPoints gives the two-point path from that point to itself
\* and the click adds no door.
C15_SamePointNoDoor ==
  [][\A p \in Pointers :
       (/\ HandleMouseDown(p)
        /\ isDrawing
        /\ ValidSnap(p)
        /\ SnapOf(p).point = startPoint) =>
         /\ FindPathBetweenPoints(edges, edgeObj, startPoint, startPoint)
              = <<startPoint, startPoint>>
         /\ doors' = doors]_vars

\* ------------------------------------------------ getPointToLineDistance
IsDistanceCall == call.fn = "getPointToLineDistance"

Dist2(p, q) == (p[1] - q[1]) * (p[1] - q[1]) + (p[2] - q[2]) * (p[2] - q[2])

\* C16: for every point P and segment [A, B], a segment with A = B included,
\* the routine returns a t in [0, 1], a projection on the segment and the
\* distance from P to the projection; for A = B it returns t = 0 and the
\* distance from P to A.
C16_ProjectionOnSegment ==
  IsDistanceCall =>
    LET P == call.args[1]
        A == call.args[2]
        B == call.args[3]
        res == call.ret[1]
    IN /\ ~res.nan
       /\ res.t[2] > 0
       /\ 0 <= res.t[1]
       /\ res.t[1] <= res.t[2]
       /\ Between(A[1], res.point[1], B[1])
       /\ Between(A[2], res.point[2], B[2])
       /\ res.distance2 = Dist2(P, res.point)
       /\ res.distance2 = SegDist2(P, A, B)
       /\ A = B => /\ res.t[1] = 0
                   /\ res.point = A
                   /\ res.distance2 = Dist2(P, A)

\* C17: every tool deregisters only its own subscriptions: initializing a
\* drawing tool or running the cleanup initializeDrawingTool returned for
\* closure c removes no listener of another closure and none of the door
\* tool's handlers.
C17_OwnSubscriptionsOnly ==
  [][/\ \A c \in 1..Len(closures) :
          ReturnedCleanup(c) =>
            \A l \in listeners : l[1] # c => l \in listeners'
     /\ InitializeDrawingTool => listeners \subseteq listeners'
     /\ (InitializeDrawingTool \/ HostCleanup) => handlers' = handlers]_vars

\* The shape the gesture in progress of a tool has on the canvas, 0 for none.
InProgress(tool) ==
  CASE tool = "line" -> lineTool.previewLine
    [] tool = "rectangle" -> rectTool.activeShape
    [] tool = "triangle" -> triTool.activeShape

\* C18: the cleanup returned for a line, rectangle or triangle closure,
\* invoked while a gesture is in progress, leaves no partial shape of the
\* gesture on the canvas, resets the tool's gesture state and leaves no
\* listener of the closure registered.
C18_CleanupLeavesNoArtifact ==
  [][\A c \in 1..Len(closures) :
       (ReturnedCleanup(c) /\ InProgress(closures[c].tool) # 0) =>
         /\ InProgress(closures[c].tool) \notin canvasObjects'
         /\ lineTool'.isDrawing = FALSE
         /\ rectTool'.isDrawing = FALSE
         /\ \A l \in listeners' : l[1] # c]_vars

\* The edges of the edge sequence that have vertex v as source or target.
IncidentEdges(v) ==
  {e \in Range(edges) : edgeObj[e].source = v \/ edgeObj[e].target = v}

\* C19: in a polygon that started with two edges at every vertex, after any
\* sequence of addVertexOnEdge calls every vertex's edge list has two
\* entries, which are exactly the edges of the current edge sequence that
\* have the vertex as source or target; no split-away edge is listed.
C19_EdgeListsCurrent ==
  (Len(vertices) - splits >= 2) =>
    \A i \in 1..Len(vertices) :
      /\ Len(vertexObj[vertices[i]].edges) = 2
      /\ Cardinality(IncidentEdges(vertices[i])) = 2
      /\ Range(vertexObj[vertices[i]].edges) = IncidentEdges(vertices[i])

\* both edges of the square's first vertex have been split
C19_Witness ==
  /\ splits >= 2
  /\ Len(vertices) - splits = 4
  /\ \A k \in 1..2 : vertexObj[1].edges[k] > 4
  /\ Range(vertexObj[1].edges) = IncidentEdges(1)

\* C20: the door tool's action on an object that is not a CustomPolygon or
\* has no canvas, and drawDoor's mouse-down while the active object is not a
\* CustomPolygon, change nothing: no handler registered, no preview, no
\* change of either gesture state, no door and no change of the polygon.
C20_IncompatibleObjectNoMutation ==
  [][lastOp' \in {"door:rejected", "drawDoor:return"} =>
       UNCHANGED <<polyVars, toolVars, libVars>>]_vars

\* the action is rejected while another polygon's door gesture is under way
C20_Witness ==
  /\ lastOp = "door:rejected"
  /\ isDrawing
  /\ handlers = {"mouse:move", "mouse:down"}
  /\ onCanvas # {}

\* The child list is the vertex sequence, then the edge sequence, then the
\* doors.
ChildrenInOrder ==
  /\ Len(objects) = Len(vertices) + Len(edges) + Len(doors)
  /\ \A i \in 1..Len(vertices) : objects[i] = <<"vertex", vertices[i]>>
  /\ \A i \in 1..Len(edges) :
       objects[Len(vertices) + i] = <<"edge", edges[i]>>
  /\ \A i \in 1..Len(doors) :
       objects[Len(vertices) + Len(edges) + i] = <<"door", doors[i].id>>

TimesChild(os, o) == Cardinality({k \in DOMAIN os : os[k] = o})

\* C21: after every addDoor, every removeDoor that finds its door and every
\* addVertexOnEdge the child list is vertices, edges, doors in that order;
\* after addVertexOnEdge the split edge is no child, the new vertex and the
\* two new edges are children exactly once, and the doors are the same doors
\* in the same order.
C21_ChildListRebuilt ==
  [][(\/ lastOp' \in {"addDoor", "addVertexOnEdge"}
      \/ (lastOp' = "deleteObject" /\ Len(doors') < Len(doors))) =>
       /\ ChildrenInOrder'
       /\ lastOp' = "addVertexOnEdge" =>
            /\ DoorIds(doors') = DoorIds(doors)
            /\ \A e \in Range(edges) \ Range(edges') :
                 TimesChild(objects', <<"edge", e>>) = 0
            /\ \A e \in Range(edges') \ Range(edges) :
                 TimesChild(objects', <<"edge", e>>) = 1
            /\ \A v \in Range(vertices') \ Range(vertices) :
                 TimesChild(objects', <<"vertex", v>>) = 1]_vars

\* an edge of a polygon with a door has been split
C21_Witness ==
  /\ lastOp = "addVertexOnEdge"
  /\ Len(doors) >= 1
  /\ Len(edges) = 5
  /\ <<"edge", 1>> \notin Range(objects)
  /\ objects[Len(objects)] = <<"door", doors[Len(doors)].id>>

\* The edge after edges[i] in the edge sequence, cyclically (i from 1).
SeqSuccessor(i) == edges[(i % Len(edges)) + 1]

OnCommonEdge(p, q) ==
  \E i \in 1..Len(edges) :
    OnLine(edgeObj, edges[i], p) /\ OnLine(edgeObj, edges[i], q)

\* C22: after any sequence of addVertexOnEdge calls the edge sequence agrees
\* with the nextEdge links: the nextEdge of edges[i] is edges[(i+1) mod n]
\* and its target is that edge's source; walking k steps by index from any
\* edge gives the edge k nextEdge links away; and two consecutive points of
\* a path findPathBetweenPoints returns lie on one common edge.
C22_SequenceAgreesWithLinks ==
  /\ \A i \in 1..Len(edges) :
       /\ edgeObj[edges[i]].nextEdge = SeqSuccessor(i)
       /\ edgeObj[edges[i]].target = edgeObj[SeqSuccessor(i)].source
       /\ \A k \in 0..Len(edges) :
            FollowNext(edges[i], k) = edges[((i - 1 + k) % Len(edges)) + 1]
  /\ IsPathCall =>
       \A k \in 1..(Len(call.ret) - 1) :
         OnCommonEdge(call.ret[k], call.ret[k + 1])

\* a path around three corners of a polygon that has been split three times
C22_Witness ==
  /\ IsPathCall
  /\ splits = 3
  /\ Len(call.ret) >= 5
  /\ edges # [i \in 1..Len(edges) |-> i]

\* the points findClosestEdgePoint returns for the pointers, on the polygon
\* as it is now
SnapsOfNow == {SnapOf(a).point : a \in {b \in Pointers : ValidSnap(b)}}

\* C23: routing between two points findClosestEdgePoint returns on the same
\* edges gives at least 2 points, so a second click with a valid snap, its
\* start point being a snap on the polygon as it is now, commits a door.
C23_RoutingCannotFail ==
  /\ [](\A snaps \in {SnapsOfNow} : \A sa \in snaps : \A sb \in snaps :
          Len(FindPathBetweenPoints(edges, edgeObj, sa, sb)) >= 2)
  /\ [][\A p \in Pointers :
          (/\ isDrawing
           /\ HandleMouseDown(p)
           /\ ValidSnap(p)
           /\ startPoint \in SnapsOfNow) =>
            /\ lastOp' = "down:commit"
            /\ Len(doors') = Len(doors) + 1]_vars

\* both clicks on a polygon that was never edited
C23_Witness ==
  /\ lastOp = "down:commit"
  /\ moves = 0
  /\ Len(doors) = 1
  /\ Len(doors[1].path) = 2

\* C24: under initializeDrawingTool the tool's handleMouseDown runs only on
\* a mouse:down that hits no object; handleMouseMove only while the
\* closure's drawing gesture is open and no drag is in progress;
\* handleMouseUp with setCurrentTool(null) only on a mouse:up that closes an
\* open gesture, and not on the mouse:up that ends a drag.  A gesture is
\* opened only by a step that runs handleMouseDown and closed by the step
\* that runs handleMouseUp, so every handleMouseUp follows a handleMouseDown
\* of its gesture.
C24_HandlerDispatch ==
  [][\A c \in 1..Len(closures) : \A p \in ToolPointers :
       /\ \A target \in BOOLEAN :
            ListenerMouseDown(c, p, target) =>
              (lastOp' = "tool:handleMouseDown" <=> ~target)
       /\ (ListenerMouseMove(c, p) /\ lastOp' = "tool:handleMouseMove") =>
            closures[c].isDrawing /\ ~closures[c].isDragging
       /\ ListenerMouseUp(c, p) =>
            /\ lastOp' = "tool:handleMouseUp" =>
                 /\ closures[c].isDrawing
                 /\ ~closures[c].isDragging
                 /\ ~closures'[c].isDrawing
            /\ closures[c].isDragging =>
                 /\ lastOp' = "tool:up:dragEnd"
                 /\ <<lineTool, rectTool, triTool, canvasObjects,
                      activeObject>>' =
                      <<lineTool, rectTool, triTool, canvasObjects,
                        activeObject>>
       /\ (~closures[c].isDrawing /\ closures'[c].isDrawing) =>
            lastOp' = "tool:handleMouseDown"
       /\ (closures[c].isDrawing /\ ~closures'[c].isDrawing) =>
            lastOp' = "tool:handleMouseUp"]_vars

\* a drag of an existing object has ended while a drawing gesture is open:
\* the triangle of the gesture is still the tool's shape
C24_Witness ==
  /\ lastOp = "tool:up:dragEnd"
  /\ \E c \in 1..Len(closures) :
       /\ closures[c].isDrawing
       /\ ~closures[c].isDragging
       /\ closures[c].tool = "triangle"
  /\ triTool.activeShape # 0

\* C25: the step that commits a door removes the previews from the canvas
\* and deregisters both handlers; a door is added only by a registered
\* mouse-down handler, which is deregistered by that step, so an activation
\* adds at most one door and no pointer event reaches the polygon afterwards;
\* a routing failure leaves both handlers registered.
C25_CommitDeregisters ==
  /\ [](Len(doors) <= activations)
  /\ [][lastOp' = "down:commit" =>
          /\ Len(doors') = Len(doors) + 1
          /\ handlers' = {}
          /\ onCanvas' = {}]_vars
  /\ [][doors' # doors =>
          /\ "mouse:down" \in handlers
          /\ handlers' = {}]_vars
  /\ [][(handlers = {} /\ ~DoorAction) =>
          /\ UNCHANGED <<doors, objects, isDrawing, startPoint, onCanvas>>
          /\ handlers' = {}]_vars
  /\ [][lastOp' = "down:routefail" =>
          /\ doors' = doors
          /\ handlers' = handlers
          /\ handlers = {"mouse:move", "mouse:down"}]_vars

\* the door was committed while a preview path was shown, on an edited
\* polygon
C25_Witness ==
  /\ lastOp = "down:commit"
  /\ moves = 1
  /\ previewPath # <<>>
  /\ onCanvas = {}
  /\ handlers = {}
  /\ Len(doors) = 1

====
